---- MODULE Spec2Model ----
(***************************************************************************)
(* PovertyLine frontend: the authentication/session store (authSlice.js),  *)
(* the transport credential and durable token it writes (setAuthToken),    *)
(* and the routing layer that reads it (App.js, ProtectedRoute.js).        *)
(*                                                                         *)
(* Spec      the store driven by any client: every thunk may be dispatched *)
(*           at any time, responses resolve in any order.                  *)
(* AppSpec   the store driven only by the application's own views.         *)
(* GuardSpec the route guard as a pure function of its inputs.             *)
(* ProfileSpec   AppSpec with the profile store (profileSlice) and the     *)
(*               profile page next to the header's logout.                 *)
(* RouteSpec     the redirects of App.js, ProtectedRoute.js and the        *)
(*               dashboard's inner routes, followed one at a time.         *)
(* AppLiveSpec   AppSpec when every request gets a response.              *)
(* AlertSpec     the alerts of uiSlice.js and the timers of AlertManager.  *)
(* ResourcesSpec the resources list of resourcesSlice.                     *)
(* UsersSpec     the list requests of the admin user-management view.      *)
(***************************************************************************)
EXTENDS Integers, Sequences, FiniteSets, TLC

VARIABLES
  auth,      \* state.auth of the redux store
  ls,        \* localStorage['token']
  hdr,       \* axios.defaults.headers.common['Authorization']
  inflight,  \* thunks dispatched and not yet resolved
  nextId,    \* requestId of the next dispatched thunk
  hist,      \* the last HistLen actions the auth slice received
  path,      \* router location
  mounted,   \* App's mount effect has run
  req,       \* requiredRole prop of the last guard evaluation
  out,       \* outcome of the last guard evaluation
  alerts,    \* state.ui.alerts of the redux store
  alertSeq,  \* the id generated for the last alert
  cont,      \* the form submit whose handler resumes after its await
  profile,   \* state.profile of the redux store
  pflight,   \* profile thunks dispatched and not yet resolved
  timers,    \* AlertManager's pending timeouts: alert id and time left
  resources, \* state.resources of the redux store
  rflight,   \* resources thunks dispatched and not yet resolved
  um,        \* UserManagement's component state and its requests in flight
  trail      \* the locations a chain of redirects went through

vars == <<auth, ls, hdr, inflight, nextId, hist, path, mounted, req, out,
          alerts, alertSeq, cont, profile, pflight, timers, resources,
          rflight, um, trail>>

\* The session, its transport and the views of the session
sessionVars == <<auth, ls, hdr, inflight, nextId, hist, path, mounted, req,
                 out, cont>>

\* What the session's thunks and reducers never touch
besideSession == <<pflight, resources, rflight, um, trail>>

----------------------------------------------------------------------------
(* Bounds *)

MaxOps == 3      \* thunks dispatched in one run
HistLen == 3     \* actions remembered in hist
MaxAlerts == 3   \* alerts on screen at once
MaxResources == 2    \* resource ids the server hands out
MaxListed == 2       \* resources in one list response
MaxFetches == 3      \* list requests of the user-management view
TickLength == 3000   \* milliseconds by which the clock advances in one step

----------------------------------------------------------------------------
(* Values *)

None == "null"

Tokens == {"t1", "t2"}

NullUser == [username |-> "null", role |-> "undefined"]

\* The server maps each issued token to one user record.
UserOf(t) ==
  IF t = "t1" THEN [username |-> "ann", role |-> "user"]
  ELSE IF t = "t2" THEN [username |-> "root", role |-> "admin"]
  ELSE NullUser

Users == {UserOf(t) : t \in Tokens}

\* Tokens a signup can return: RegisterSchema allows role user or provider only.
RegisterTokens == {t \in Tokens : UserOf(t).role # "admin"}

\* error.response?.data?.error : a server message, or undefined
ServerErrors == {None, "Invalid credentials"}

NoHeader == <<>>

Bearer(token) == <<"Bearer", token>>

HeaderToken(h) == IF h = NoHeader THEN None ELSE h[2]

----------------------------------------------------------------------------
(* authSlice.js *)

setAuthToken_KeepsStored(token) ==
  IF token # None
    THEN [hdr |-> Bearer(token), ls |-> token]
    ELSE [hdr |-> NoHeader, ls |-> ls]

\* setAuthToken: the Authorization header and the persisted token it leaves
setAuthToken(token) ==
  IF token # None
    THEN [hdr |-> Bearer(token), ls |-> token]
    ELSE [hdr |-> NoHeader, ls |-> None]

initialState_NotLoading(l) ==
  [token |-> l, isAuthenticated |-> FALSE, user |-> NullUser,
   isLoading |-> FALSE, error |-> None]

initialState(l) ==
  [token |-> l, isAuthenticated |-> FALSE, user |-> NullUser,
   isLoading |-> TRUE, error |-> None]

\* A redux action: type, meta.requestId, and the payload's fields
\* (http: how the request behind the action ended: "none", "ok" or "failed")
Action(type, id, token, user, error, http) ==
  [type |-> type, id |-> id, token |-> token, user |-> user, error |-> error,
   http |-> http]

clearError_ResetsLoading(state) ==
  [state EXCEPT !.error = None, !.isLoading = FALSE]

clearError(state) == [state EXCEPT !.error = None]

registerPending(state) == [state EXCEPT !.isLoading = TRUE, !.error = None]

registerFulfilled(state, a) ==
  [state EXCEPT !.isLoading = FALSE, !.isAuthenticated = TRUE,
                !.token = a.token, !.user = a.user]

registerRejected_Authenticates(state, a) ==
  [state EXCEPT !.isLoading = FALSE, !.isAuthenticated = TRUE,
                !.error = a.error]

registerRejected(state, a) ==
  [state EXCEPT !.isLoading = FALSE, !.error = a.error]

loginPending_KeepsError(state) == [state EXCEPT !.isLoading = TRUE]

loginPending(state) == [state EXCEPT !.isLoading = TRUE, !.error = None]

loginFulfilled_NoToken(state, a) ==
  [state EXCEPT !.isLoading = FALSE, !.isAuthenticated = TRUE,
                !.user = a.user]

loginFulfilled_OnlyWhileLoading(state, a) ==
  IF state.isLoading
    THEN [state EXCEPT !.isLoading = FALSE, !.isAuthenticated = TRUE,
                       !.token = a.token, !.user = a.user]
    ELSE state

loginFulfilled(state, a) ==
  [state EXCEPT !.isLoading = FALSE, !.isAuthenticated = TRUE,
                !.token = a.token, !.user = a.user]

loginRejected_StaysLoading(state, a) == [state EXCEPT !.error = a.error]

loginRejected_ResetsSession(state, a) ==
  [state EXCEPT !.isLoading = FALSE, !.isAuthenticated = FALSE,
                !.token = None, !.user = NullUser, !.error = a.error]

loginRejected(state, a) ==
  [state EXCEPT !.isLoading = FALSE, !.error = a.error]

checkAuthStatusPending(state) ==
  [state EXCEPT !.isLoading = TRUE, !.error = None]

checkAuthStatusFulfilled_NoUser(state, a) ==
  [state EXCEPT !.isLoading = FALSE, !.isAuthenticated = TRUE]

checkAuthStatusFulfilled_SetsToken(state, a) ==
  [state EXCEPT !.isLoading = FALSE, !.isAuthenticated = TRUE,
                !.token = a.token, !.user = a.user]

checkAuthStatusFulfilled(state, a) ==
  [state EXCEPT !.isLoading = FALSE, !.isAuthenticated = TRUE,
                !.user = a.user]

checkAuthStatusRejected_StaysLoading(state, a) ==
  [state EXCEPT !.isAuthenticated = FALSE, !.token = None, !.user = NullUser]

checkAuthStatusRejected_KeepsToken(state, a) ==
  [state EXCEPT !.isLoading = FALSE, !.isAuthenticated = FALSE,
                !.user = NullUser]

checkAuthStatusRejected(state, a) ==
  [state EXCEPT !.isLoading = FALSE, !.isAuthenticated = FALSE,
                !.token = None, !.user = NullUser]

logoutFulfilled_KeepsToken(state) ==
  [state EXCEPT !.isAuthenticated = FALSE, !.user = NullUser,
                !.isLoading = FALSE]

logoutFulfilled(state) ==
  [state EXCEPT !.isAuthenticated = FALSE, !.token = None,
                !.user = NullUser, !.isLoading = FALSE]

\* The slice's reducer: actions without a case leave the state alone
authReducer(state, a) ==
  CASE a.type = "auth/clearError"           -> clearError(state)
    [] a.type = "auth/register/pending"     -> registerPending(state)
    [] a.type = "auth/register/fulfilled"   -> registerFulfilled(state, a)
    [] a.type = "auth/register/rejected"    -> registerRejected(state, a)
    [] a.type = "auth/login/pending"        -> loginPending(state)
    [] a.type = "auth/login/fulfilled"      -> loginFulfilled(state, a)
    [] a.type = "auth/login/rejected"       -> loginRejected(state, a)
    [] a.type = "auth/checkStatus/pending"  -> checkAuthStatusPending(state)
    [] a.type = "auth/checkStatus/fulfilled" -> checkAuthStatusFulfilled(state, a)
    [] a.type = "auth/checkStatus/rejected" -> checkAuthStatusRejected(state, a)
    [] a.type = "auth/logout/fulfilled"     -> logoutFulfilled(state)
    [] OTHER                                -> state

RECURSIVE Reduce(_, _)
\* The store applies a sequence of actions in order
Reduce(state, as) ==
  IF as = <<>> THEN state ELSE Reduce(authReducer(state, Head(as)), Tail(as))

----------------------------------------------------------------------------
(* ProtectedRoute.js, App.js *)

Paths == {"/", "/login", "/register", "/profile", "/dashboard", "/missing"}

Null == [kind |-> "null", page |-> None, to |-> None]
Navigate(to) == [kind |-> "navigate", page |-> None, to |-> to]
Page(name) == [kind |-> "page", page |-> name, to |-> None]

ProtectedRoute_NoRole(state, requiredRole, children) ==
  IF state.isLoading THEN Null
  ELSE IF ~state.isAuthenticated THEN Navigate("/login")
  ELSE children

ProtectedRoute_AbsentUserPasses(state, requiredRole, children) ==
  IF state.isLoading THEN Null
  ELSE IF ~state.isAuthenticated THEN Navigate("/login")
  ELSE IF /\ requiredRole # None /\ state.user # NullUser
          /\ state.user.role # requiredRole THEN Navigate("/")
  ELSE children

ProtectedRoute_UnauthenticatedToProfile(state, requiredRole, children) ==
  IF state.isLoading THEN Null
  ELSE IF ~state.isAuthenticated THEN Navigate("/profile")
  ELSE IF requiredRole # None /\ state.user.role # requiredRole THEN Navigate("/")
  ELSE children

\* requiredRole is None when the prop is not given
ProtectedRoute(state, requiredRole, children) ==
  IF state.isLoading THEN Null
  ELSE IF ~state.isAuthenticated THEN Navigate("/login")
  ELSE IF requiredRole # None /\ state.user.role # requiredRole THEN Navigate("/")
  ELSE children

\* Locations under the admin dashboard: its index, one of its views, and one
\* that none of its inner routes matches
DashboardPaths == {"/dashboard", "/dashboard/users", "/dashboard/unknown"}

\* The inner <Routes> of DashboardPage
DashboardPage(p) ==
  CASE p = "/dashboard"       -> Page("DashboardPage")
    [] p = "/dashboard/users" -> Page("UserManagement")
    [] OTHER                  -> Navigate("/admin")

\* The element the route table renders for a location
Routes(state, p) ==
  CASE p = "/"          -> Page("HomePage")
    [] p = "/login"     -> IF ~state.isAuthenticated THEN Page("LoginPage")
                           ELSE Navigate("/profile")
    [] p = "/register"  -> IF ~state.isAuthenticated THEN Page("RegisterPage")
                           ELSE Navigate("/profile")
    [] p = "/profile"   -> ProtectedRoute(state, None, Page("ProfilePage"))
    [] p \in DashboardPaths -> ProtectedRoute(state, "admin", DashboardPage(p))
    [] OTHER            -> Page("NotFoundPage")

\* What App renders: the loading box while isLoading, else the matched route
App(state, p) ==
  IF state.isLoading THEN Page("Loading") ELSE Routes(state, p)

MaxRedirects == 4

RECURSIVE Settle(_, _, _)
\* A rendered <Navigate> changes the location and App renders again
Settle(state, p, fuel) ==
  LET e == App(state, p) IN
    IF e.kind = "navigate" /\ fuel > 0 THEN Settle(state, e.to, fuel - 1) ELSE p

\* The view on screen at a location
Screen(state, p) == App(state, p).page

FormPages == {"LoginPage", "RegisterPage"}

----------------------------------------------------------------------------
(* uiSlice.js *)

\* The payload of addAlert as the views build it: autoClose is not given
Alert(type, message) == [type |-> type, message |-> message, autoClose |-> None]

\* addAlert: type defaults to 'info', autoClose to true; id is the generated id
addAlert(list, id, payload) ==
  Append(list, [id |-> id,
                type |-> IF payload.type = None THEN "info" ELSE payload.type,
                message |-> payload.message,
                autoClose |-> IF payload.autoClose = None THEN "true"
                              ELSE payload.autoClose])

\* removeAlert: the alerts whose id is not the payload
removeAlert(list, id) == SelectSeq(list, LAMBDA a : a.id # id)

\* The ids of the alerts in the list
AlertIds(list) == {list[k].id : k \in 1..Len(list)}

\* The delay of AlertManager's setTimeout, in milliseconds
AutoCloseDelay == 6000

\* AlertManager's effect, run after every change of the alerts array: the
\* cleanup of the previous run has cleared every pending timer, and one new
\* timer is set for each alert with autoClose
StartTimers(list) ==
  {[id |-> list[k].id, left |-> AutoCloseDelay] :
     k \in {j \in 1..Len(list) : list[j].autoClose = "true"}}

\* The success message of the form page
SuccessMessage(page) ==
  IF page = "LoginPage" THEN "Login successful! Welcome back."
  ELSE "Registration successful! Welcome to PovertyLine."

----------------------------------------------------------------------------
(* profileSlice *)

\* response.data.profile of /api/profiles/me for the user of a token
ProfileOf(t) ==
  [owner |-> UserOf(t).username,
   completion_percentage |-> IF t = "t1" THEN 50 ELSE 100]

NoProfile == [owner |-> "null", completion_percentage |-> 0]

profileInitialState ==
  [data |-> NoProfile, isLoading |-> FALSE, error |-> None,
   completionPercentage |-> 0]

resetProfile(state) ==
  [state EXCEPT !.data = NoProfile, !.isLoading = FALSE, !.error = None,
                !.completionPercentage = 0]

\* fetchProfile.pending, createProfile.pending, updateProfile.pending
profilePending(state) == [state EXCEPT !.isLoading = TRUE, !.error = None]

\* fetchProfile.fulfilled, createProfile.fulfilled, updateProfile.fulfilled
profileFulfilled(state, payload) ==
  [state EXCEPT !.isLoading = FALSE, !.data = payload,
                !.completionPercentage = payload.completion_percentage]

\* fetchProfile.rejected, createProfile.rejected, updateProfile.rejected
profileRejected(state, payload) ==
  [state EXCEPT !.isLoading = FALSE, !.error = payload]

----------------------------------------------------------------------------
(* resourcesSlice: the list and the resource last written; pagination,      *)
(* filters and applications are left out                                    *)

ResourceIds == 1..MaxResources

\* A resource as the server returns it
Resources == [id : ResourceIds, title : {"a", "b"}]

NoResource == [id |-> 0, title |-> "null"]

resourcesInitialState ==
  [resources |-> <<>>, currentResource |-> NoResource, isLoading |-> FALSE,
   error |-> None]

\* No two entries of the list have the same id
DuplicateFree(list) ==
  \A i, j \in 1..Len(list) : list[i].id = list[j].id => i = j

\* response.data.resources of a list request: any duplicate-free page
ServerLists ==
  {l \in UNION {[1..n -> Resources] : n \in 0..MaxListed} : DuplicateFree(l)}

\* every `pending` case of the slice
resourcesPending(state) == [state EXCEPT !.isLoading = TRUE, !.error = None]

\* every `rejected` case of the slice
resourcesRejected(state, payload) ==
  [state EXCEPT !.isLoading = FALSE, !.error = payload]

fetchResourcesFulfilled(state, list) ==
  [state EXCEPT !.isLoading = FALSE, !.resources = list]

createResourceFulfilled_AlwaysPrepends(state, r) ==
  [state EXCEPT !.isLoading = FALSE, !.currentResource = r,
                !.resources = <<r>> \o @]

\* state.resources.find(...) absent: unshift
createResourceFulfilled(state, r) ==
  [state EXCEPT !.isLoading = FALSE, !.currentResource = r,
                !.resources =
                  IF \E k \in 1..Len(@) : @[k].id = r.id THEN @ ELSE <<r>> \o @]

\* findIndex: the first entry with the id, replaced in place
updateResourceFulfilled(state, r) ==
  LET found == {k \in 1..Len(state.resources) : state.resources[k].id = r.id}
  IN [state EXCEPT !.isLoading = FALSE, !.currentResource = r,
                   !.resources =
                     IF found = {} THEN @
                     ELSE [@ EXCEPT ![CHOOSE k \in found :
                                        \A m \in found : k <= m] = r]]

----------------------------------------------------------------------------
(* UserManagement.js *)

PageNumbers == {0, 1}
RowsPerPageOptions == {10, 25}
RoleFilters == {"", "admin"}

\* The query string fetchUsers builds from the state it closed over
UsersQuery(page, rowsPerPage, role) ==
  [page |-> page + 1, per_page |-> rowsPerPage, role |-> role]

NoQuery == [page |-> 0, per_page |-> 0, role |-> "null"]

\* Before the component is mounted: the useState defaults
UMUnmounted ==
  [mounted |-> FALSE, page |-> 0, rowsPerPage |-> 10, role |-> "",
   shown |-> NoQuery, isLoading |-> TRUE, error |-> None,
   flight |-> {}, fetches |-> 0]

\* The effect on [page, rowsPerPage, filters]: fetchUsers() up to its await
fetchUsers(c) ==
  [c EXCEPT !.isLoading = TRUE,
            !.fetches = @ + 1,
            !.flight = @ \cup {[id |-> c.fetches + 1,
                                 query |-> UsersQuery(c.page, c.rowsPerPage, c.role)]}]

----------------------------------------------------------------------------
(* The store and the views around it *)

RECURSIVE PushAll(_, _)
PushAll(h, as) ==
  IF as = <<>> THEN h
  ELSE PushAll(IF Len(h) < HistLen THEN Append(h, Head(as))
               ELSE Append(Tail(h), Head(as)), Tail(as))

ClearErrorAction == Action("auth/clearError", 0, None, NullUser, None, "none")

\* The store, the action log and the location, as the views see them
World == [auth |-> auth, hist |-> hist, path |-> path]

\* The store receives the actions as, then the router goes to navTo (None:
\* stays), App renders again and follows redirects; a login or register page
\* that the first of these renders no longer shows is unmounted and
\* dispatches clearError from its effect cleanup (LoginPage.js 45-49,
\* RegisterPage 68-72), also when a redirect leads back to the same page.
Dispatch(w, as, navTo) ==
  LET s1 == Reduce(w.auth, as)
      p0 == IF navTo = None THEN w.path ELSE navTo
      p1 == Settle(s1, p0, MaxRedirects)
      unmount == /\ Screen(w.auth, w.path) \in FormPages
                 /\ Screen(s1, p0) # Screen(w.auth, w.path)
  IN [auth |-> IF unmount THEN clearError(s1) ELSE s1,
      hist |-> PushAll(w.hist, IF unmount THEN Append(as, ClearErrorAction) ELSE as),
      path |-> p1]

Commit(w) ==
  /\ auth' = w.auth
  /\ hist' = w.hist
  /\ path' = w.path

\* A dispatched thunk: its requestId, its kind, the bearer token its request
\* carried, whether a request was sent at all, the view that dispatched it
\* and the value of `error` that view had rendered with
Thunk(id, kind, tok, sent, from, err) ==
  [id |-> id, kind |-> kind, tok |-> tok, sent |-> sent, from |-> from, err |-> err]

PendingAction(kind, id) ==
  Action("auth/" \o kind \o "/pending", id, None, NullUser, None, "none")

\* A thunk that returned before its first request (rejectWithValue('No token
\* found')) dispatches its rejected action from the microtask queue, which
\* drains before the event loop delivers any HTTP response
ResponseDeliverable == \A q \in inflight : q.sent

NoThunk == Thunk(0, "none", None, FALSE, "none", None)

\* No handler is suspended at an await
NoCont == [thunk |-> NoThunk, ok |-> FALSE]

\* `await dispatch(thunk)` of a form page: the handler resumes once the thunk
\* has resolved (ok: fulfilled); other callers do not wait for the result
Awaiting(r, ok) ==
  IF r.from \in FormPages THEN [thunk |-> r, ok |-> ok] ELSE NoCont

\* dispatch(register(userData)) up to the await of axios.post
DispatchRegister(from) ==
  /\ cont = NoCont
  /\ UNCHANGED <<profile, timers, besideSession>>
  /\ mounted /\ nextId <= MaxOps
  /\ inflight' = inflight \cup
       {Thunk(nextId, "register", HeaderToken(hdr), TRUE, from, auth.error)}
  /\ nextId' = nextId + 1
  /\ Commit(Dispatch(World, <<PendingAction("register", nextId)>>, None))
  /\ UNCHANGED <<ls, hdr, mounted, req, out, alerts, alertSeq, cont>>

\* dispatch(login(credentials)) up to the await of axios.post
DispatchLogin(from) ==
  /\ cont = NoCont
  /\ UNCHANGED <<profile, timers, besideSession>>
  /\ mounted /\ nextId <= MaxOps
  /\ inflight' = inflight \cup
       {Thunk(nextId, "login", HeaderToken(hdr), TRUE, from, auth.error)}
  /\ nextId' = nextId + 1
  /\ Commit(Dispatch(World, <<PendingAction("login", nextId)>>, None))
  /\ UNCHANGED <<ls, hdr, mounted, req, out, alerts, alertSeq, cont>>

\* dispatch(checkAuthStatus()) up to the await of axios.get, or up to the
\* return of rejectWithValue('No token found')
DispatchCheck(from) ==
  /\ cont = NoCont
  /\ UNCHANGED <<profile, timers, besideSession>>
  /\ nextId <= MaxOps
  /\ LET token == ls IN
       IF token = None
         THEN /\ inflight' = inflight \cup
                   {Thunk(nextId, "checkStatus", None, FALSE, from, auth.error)}
              /\ UNCHANGED <<ls, hdr>>
         ELSE /\ hdr' = setAuthToken(token).hdr
              /\ ls' = setAuthToken(token).ls
              /\ inflight' = inflight \cup
                   {Thunk(nextId, "checkStatus", token, TRUE, from, auth.error)}
  /\ nextId' = nextId + 1
  /\ Commit(Dispatch(World, <<PendingAction("checkStatus", nextId)>>, None))
  /\ UNCHANGED <<req, out, alerts, alertSeq, cont>>

\* dispatch(logout()) up to the await of axios.post; navTo is where the
\* dispatching view navigates right after (None: nowhere)
DispatchLogout(from, navTo) ==
  /\ cont = NoCont
  /\ UNCHANGED besideSession
  /\ mounted /\ nextId <= MaxOps
  /\ inflight' = inflight \cup
       {Thunk(nextId, "logout", HeaderToken(hdr), TRUE, from, auth.error)}
  /\ nextId' = nextId + 1
  /\ Commit(Dispatch(World, <<PendingAction("logout", nextId)>>, navTo))
  /\ UNCHANGED <<ls, hdr, mounted, req, out, cont>>

\* handleSubmit after `await dispatch(...)`: the page tests the `error` it
\* rendered with when the form was submitted, and goes to /profile
AfterSubmit(w, r) ==
  IF r.from \in FormPages /\ r.err = None
    THEN Dispatch(w, <<>>, "/profile")
    ELSE w

ErrorMessage_AlwaysFallback(e, fallback) == fallback

\* error.response?.data?.error || fallback
ErrorMessage(e, fallback) == IF e # None THEN e ELSE fallback

\* axios.post('/api/auth/register') succeeds: setAuthToken, return response.data
RegisterSucceeds(r) ==
  /\ cont = NoCont
  /\ UNCHANGED <<profile, timers, besideSession>>
  /\ ResponseDeliverable
  /\ r \in inflight /\ r.kind = "register"
  /\ \E t \in RegisterTokens :
       /\ hdr' = setAuthToken(t).hdr
       /\ ls' = setAuthToken(t).ls
       /\ Commit(Dispatch(World, <<Action("auth/register/fulfilled", r.id, t,
                                          UserOf(t), None, "ok")>>, None))
  /\ inflight' = inflight \ {r}
  /\ cont' = Awaiting(r, TRUE)
  /\ UNCHANGED <<nextId, mounted, req, out, alerts, alertSeq>>

\* axios.post('/api/auth/register') fails with the server's error field e
\* (None: the response has none): rejectWithValue
RegisterRejects(r, e) ==
  /\ cont = NoCont
  /\ UNCHANGED <<profile, timers, besideSession>>
  /\ ResponseDeliverable
  /\ r \in inflight /\ r.kind = "register"
  /\ Commit(Dispatch(World, <<Action("auth/register/rejected", r.id, None,
                                     NullUser,
                                     ErrorMessage(e, "Registration failed"),
                                     "failed")>>, None))
  /\ inflight' = inflight \ {r}
  /\ cont' = Awaiting(r, FALSE)
  /\ UNCHANGED <<ls, hdr, nextId, mounted, req, out, alerts, alertSeq>>

RegisterFails(r) == \E e \in ServerErrors : RegisterRejects(r, e)

\* axios.post('/api/auth/login') succeeds: setAuthToken, return response.data
LoginSucceeds(r) ==
  /\ cont = NoCont
  /\ UNCHANGED <<profile, timers, besideSession>>
  /\ ResponseDeliverable
  /\ r \in inflight /\ r.kind = "login"
  /\ \E t \in Tokens :
       /\ hdr' = setAuthToken(t).hdr
       /\ ls' = setAuthToken(t).ls
       /\ Commit(Dispatch(World, <<Action("auth/login/fulfilled", r.id, t,
                                          UserOf(t), None, "ok")>>, None))
  /\ inflight' = inflight \ {r}
  /\ cont' = Awaiting(r, TRUE)
  /\ UNCHANGED <<nextId, mounted, req, out, alerts, alertSeq>>

\* axios.post('/api/auth/login') fails with the server's error field e
\* (None: the response has none): rejectWithValue
LoginRejects(r, e) ==
  /\ cont = NoCont
  /\ UNCHANGED <<profile, timers, besideSession>>
  /\ ResponseDeliverable
  /\ r \in inflight /\ r.kind = "login"
  /\ Commit(Dispatch(World, <<Action("auth/login/rejected", r.id, None,
                                     NullUser, ErrorMessage(e, "Login failed"),
                                     "failed")>>, None))
  /\ inflight' = inflight \ {r}
  /\ cont' = Awaiting(r, FALSE)
  /\ UNCHANGED <<ls, hdr, nextId, mounted, req, out, alerts, alertSeq>>

LoginFails(r) == \E e \in ServerErrors : LoginRejects(r, e)

\* checkAuthStatus found no token: rejectWithValue('No token found'), no request
CheckNoToken(r) ==
  /\ cont = NoCont
  /\ UNCHANGED <<profile, timers, besideSession>>
  /\ r \in inflight /\ r.kind = "checkStatus" /\ ~r.sent
  /\ Commit(Dispatch(World, <<Action("auth/checkStatus/rejected", r.id, None,
                                     NullUser, "No token found", "none")>>, None))
  /\ inflight' = inflight \ {r}
  /\ UNCHANGED <<ls, hdr, nextId, mounted, req, out, alerts, alertSeq, cont>>

\* axios.get('/api/auth/me') succeeds: the user of the token the request carried
CheckSucceeds(r) ==
  /\ cont = NoCont
  /\ UNCHANGED <<profile, timers, besideSession>>
  /\ ResponseDeliverable
  /\ r \in inflight /\ r.kind = "checkStatus" /\ r.sent
  /\ Commit(Dispatch(World, <<Action("auth/checkStatus/fulfilled", r.id, None,
                                     UserOf(r.tok), None, "ok")>>, None))
  /\ inflight' = inflight \ {r}
  /\ UNCHANGED <<ls, hdr, nextId, mounted, req, out, alerts, alertSeq, cont>>

\* axios.get('/api/auth/me') fails: setAuthToken(null), rejectWithValue
CheckFails(r) ==
  /\ cont = NoCont
  /\ UNCHANGED <<profile, timers, besideSession>>
  /\ ResponseDeliverable
  /\ r \in inflight /\ r.kind = "checkStatus" /\ r.sent
  /\ hdr' = setAuthToken(None).hdr
  /\ ls' = setAuthToken(None).ls
  /\ \E e \in ServerErrors :
       Commit(Dispatch(World, <<Action("auth/checkStatus/rejected", r.id, None,
                                       NullUser,
                                       ErrorMessage(e, "Authentication failed"),
                                       "failed")>>, None))
  /\ inflight' = inflight \ {r}
  /\ UNCHANGED <<nextId, mounted, req, out, alerts, alertSeq, cont>>

logoutToken_OnlyOnSuccess(ok) ==
  IF ok THEN setAuthToken(None) ELSE [hdr |-> hdr, ls |-> ls]

\* What the logout thunk does to the token once axios.post has settled either
\* way: both the try and the catch branch call setAuthToken(null)
logoutToken(ok) == setAuthToken(None)

\* axios.post('/api/auth/logout') succeeds (ok) or fails: the thunk returns
\* null in both cases and logout.fulfilled is dispatched
LogoutResolves(r, ok) ==
  /\ cont = NoCont
  /\ UNCHANGED <<profile, timers, besideSession>>
  /\ ResponseDeliverable
  /\ r \in inflight /\ r.kind = "logout"
  /\ hdr' = logoutToken(ok).hdr
  /\ ls' = logoutToken(ok).ls
  /\ Commit(Dispatch(World, <<Action("auth/logout/fulfilled", r.id, None,
                                     NullUser, None,
                                     IF ok THEN "ok" ELSE "failed")>>, None))
  /\ inflight' = inflight \ {r}
  /\ UNCHANGED <<nextId, mounted, req, out, alerts, alertSeq, cont>>

----------------------------------------------------------------------------
(* The application *)

Unrendered == [kind |-> "unrendered", page |-> None, to |-> None]

\* The page is loaded at some location; the store is created from
\* initialState, which reads the persisted token; axios has no default header
Init ==
  /\ ls \in Tokens \cup {None}
  /\ auth = initialState(ls)
  /\ hdr = NoHeader
  /\ inflight = {}
  /\ nextId = 1
  /\ hist = <<>>
  /\ path \in Paths
  /\ mounted = FALSE
  /\ req = None
  /\ out = Unrendered
  /\ alerts = <<>>
  /\ alertSeq = 0
  /\ cont = NoCont
  /\ profile = profileInitialState
  /\ pflight = {}
  /\ timers = {}
  /\ resources = resourcesInitialState
  /\ rflight = {}
  /\ um = UMUnmounted
  /\ trail = <<>>

\* App's mount effect: dispatch(checkAuthStatus())
Mount ==
  /\ ~mounted
  /\ mounted' = TRUE
  /\ DispatchCheck("App")

\* LoginPage.handleSubmit up to `await dispatch(login(values))`
SubmitLogin ==
  /\ Screen(auth, path) = "LoginPage"
  /\ DispatchLogin("LoginPage")

\* RegisterPage.handleSubmit up to `await dispatch(register(userData))`
SubmitRegister ==
  /\ Screen(auth, path) = "RegisterPage"
  /\ DispatchRegister("RegisterPage")

\* Header.handleLogout: dispatch(logout()), then navigate('/'); the entry is
\* rendered inside the Layout, for an authenticated session
HeaderLogout ==
  /\ ~auth.isLoading /\ auth.isAuthenticated
  /\ DispatchLogout("Header", "/")
  /\ alerts' = addAlert(alerts, alertSeq + 1,
                        Alert("success", "You have been logged out successfully"))
  /\ alertSeq' = alertSeq + 1
  /\ timers' = StartTimers(alerts')
  /\ profile' = resetProfile(profile)

\* LoginPage.handleSubmit and RegisterPage.handleSubmit from the return of
\* `await dispatch(...)`: if the `error` the page had rendered with when the
\* form was submitted is empty, add the success alert and go to /profile
SubmitResumes ==
  /\ cont # NoCont
  /\ IF cont.thunk.err = None
       THEN /\ alerts' = addAlert(alerts, alertSeq + 1,
                                  Alert("success", SuccessMessage(cont.thunk.from)))
            /\ alertSeq' = alertSeq + 1
       ELSE UNCHANGED <<alerts, alertSeq>>
  /\ timers' = IF alerts' # alerts THEN StartTimers(alerts') ELSE timers
  /\ Commit(AfterSubmit(World, cont.thunk))
  /\ cont' = NoCont
  /\ UNCHANGED <<profile, besideSession>>
  /\ UNCHANGED <<ls, hdr, inflight, nextId, mounted, req, out>>

\* A link or the browser's history changes the location
NavigateTo(p) ==
  /\ cont = NoCont
  /\ UNCHANGED <<profile, timers, besideSession>>
  /\ mounted
  /\ Commit(Dispatch(World, <<>>, p))
  /\ UNCHANGED <<ls, hdr, inflight, nextId, mounted, req, out,
                 alerts, alertSeq, cont>>

Resolve ==
  \E r \in inflight :
    \/ RegisterSucceeds(r)
    \/ RegisterFails(r)
    \/ LoginSucceeds(r)
    \/ LoginFails(r)
    \/ CheckNoToken(r)
    \/ CheckSucceeds(r)
    \/ CheckFails(r)
    \/ \E ok \in BOOLEAN : LogoutResolves(r, ok)

AppNext ==
  \/ Mount
  \/ SubmitLogin
  \/ SubmitRegister
  \/ HeaderLogout
  \/ \E p \in Paths : NavigateTo(p)
  \/ Resolve
  \/ SubmitResumes

AppSpec == Init /\ [][AppNext]_vars

\* The application when the mount effect runs, every request issued gets its
\* response and every awaiting handler resumes
AppLiveSpec ==
  /\ AppSpec
  /\ WF_vars(Mount)
  /\ WF_vars(Resolve)
  /\ WF_vars(SubmitResumes)

\* The thunks of profileSlice
ProfileKinds == {"fetchProfile", "createProfile", "updateProfile"}

\* error.response?.data?.error is absent: the fallback message of the thunk
ProfileError(kind) ==
  CASE kind = "fetchProfile"  -> "Failed to fetch profile"
    [] kind = "createProfile" -> "Failed to create profile"
    [] kind = "updateProfile" -> "Failed to update profile"

\* The profile page dispatches a profile thunk (fetchProfile from its mount
\* effect and its retry button): `pending`, and the request leaves with the
\* Authorization header of that moment
DispatchProfile(kind) ==
  /\ cont = NoCont
  /\ Screen(auth, path) = "ProfilePage"
  /\ [kind |-> kind, tok |-> HeaderToken(hdr)] \notin pflight
  /\ pflight' = pflight \cup {[kind |-> kind, tok |-> HeaderToken(hdr)]}
  /\ profile' = profilePending(profile)
  /\ UNCHANGED <<sessionVars, alerts, alertSeq, timers, resources, rflight,
                 um, trail>>

\* The response to a profile request arrives: `fulfilled` with the profile of
\* the user whose token the request carried, or `rejected`
ProfileResolves(r, ok) ==
  /\ cont = NoCont
  /\ ResponseDeliverable
  /\ r \in pflight
  /\ ok => r.tok \in Tokens
  /\ pflight' = pflight \ {r}
  /\ profile' = IF ok THEN profileFulfilled(profile, ProfileOf(r.tok))
                ELSE profileRejected(profile, ProfileError(r.kind))
  /\ UNCHANGED <<sessionVars, alerts, alertSeq, timers, resources, rflight,
                 um, trail>>

ProfileNext ==
  \/ AppNext
  \/ \E kind \in ProfileKinds : DispatchProfile(kind)
  \/ \E r \in pflight : \E ok \in BOOLEAN : ProfileResolves(r, ok)

ProfileSpec == Init /\ [][ProfileNext]_vars

\* Any client of the store: the thunks and clearError dispatched directly,
\* in any order, while the application shows the home page
ApiRegister == DispatchRegister("api")

ApiLogin == DispatchLogin("api")

ApiCheckStatus == mounted /\ UNCHANGED mounted /\ DispatchCheck("api")

ApiLogout ==
  /\ DispatchLogout("api", None)
  /\ UNCHANGED <<alerts, alertSeq, timers, profile>>

ApiClearError ==
  /\ cont = NoCont
  /\ UNCHANGED <<profile, timers, besideSession>>
  /\ mounted
  /\ Commit(Dispatch(World, <<ClearErrorAction>>, None))
  /\ UNCHANGED <<ls, hdr, inflight, nextId, mounted, req, out,
                 alerts, alertSeq, cont>>

ApiInit == Init /\ path = "/"

Next ==
  \/ Mount
  \/ ApiRegister
  \/ ApiLogin
  \/ ApiCheckStatus
  \/ ApiLogout
  \/ ApiClearError
  \/ Resolve

Spec == ApiInit /\ [][Next]_vars

----------------------------------------------------------------------------
(* The route guard on its own *)

RequiredRoles == {None, "admin", "user"}

SessionUsers == Users \cup {NullUser}

\* Any snapshot of the session the guard may be handed, and any prop
GuardInit ==
  /\ auth \in [token : Tokens \cup {None}, isAuthenticated : BOOLEAN,
               user : SessionUsers, isLoading : BOOLEAN, error : {None}]
  /\ req \in RequiredRoles
  /\ out = Unrendered
  /\ ls = None /\ hdr = NoHeader /\ inflight = {} /\ nextId = 1
  /\ hist = <<>> /\ path = "/" /\ mounted = TRUE
  /\ alerts = <<>> /\ alertSeq = 0 /\ cont = NoCont
  /\ profile = profileInitialState /\ pflight = {} /\ timers = {}
  /\ resources = resourcesInitialState /\ rflight = {}
  /\ um = UMUnmounted /\ trail = <<>>

\* One render of <ProtectedRoute requiredRole={req}>children</ProtectedRoute>
GuardRender ==
  /\ out' = ProtectedRoute(auth, req, Page("children"))
  /\ UNCHANGED <<auth, ls, hdr, inflight, nextId, hist, path, mounted, req,
                 alerts, alertSeq, cont, profile, timers, besideSession>>

GuardNext == GuardRender

GuardSpec == GuardInit /\ [][GuardNext]_vars

----------------------------------------------------------------------------
(* The redirects on their own *)

\* The locations of the route table, of the dashboard's inner routes, and the
\* target of the dashboard's fallback redirect
RoutePaths == Paths \cup DashboardPaths \cup {"/admin"}

\* Any snapshot of the session at any location
RouteInit ==
  /\ auth \in [token : Tokens \cup {None}, isAuthenticated : BOOLEAN,
               user : SessionUsers, isLoading : BOOLEAN, error : {None}]
  /\ path \in RoutePaths
  /\ trail = <<path>>
  /\ req = None /\ out = Unrendered
  /\ ls = None /\ hdr = NoHeader /\ inflight = {} /\ nextId = 1
  /\ hist = <<>> /\ mounted = TRUE
  /\ alerts = <<>> /\ alertSeq = 0 /\ cont = NoCont
  /\ profile = profileInitialState /\ pflight = {} /\ timers = {}
  /\ resources = resourcesInitialState /\ rflight = {} /\ um = UMUnmounted

\* App renders a <Navigate>: the router replaces the location
FollowRedirect ==
  /\ App(auth, path).kind = "navigate"
  /\ Len(trail) <= MaxRedirects
  /\ path' = App(auth, path).to
  /\ trail' = Append(trail, path')
  /\ UNCHANGED <<auth, ls, hdr, inflight, nextId, hist, mounted, req, out,
                 alerts, alertSeq, cont, profile, pflight, timers, resources,
                 rflight, um>>

RouteNext == FollowRedirect

RouteSpec == RouteInit /\ [][RouteNext]_vars /\ WF_vars(RouteNext)

----------------------------------------------------------------------------
(* The alerts and their timers on their own *)

\* The session after a page load at location p with token t persisted, once
\* the initial status check has succeeded
LoadedSession(t, p) ==
  LET as == <<PendingAction("checkStatus", 1),
              Action("auth/checkStatus/fulfilled", 1, None, UserOf(t), None, "ok")>>
  IN /\ auth = Reduce(initialState(t), as)
     /\ ls = t /\ hdr = Bearer(t)
     /\ inflight = {} /\ nextId = 2
     /\ hist = PushAll(<<>>, as)
     /\ path = p /\ mounted = TRUE
     /\ req = None /\ out = Unrendered /\ cont = NoCont

\* The other stores and views as they are created
StoresAtRest ==
  /\ alerts = <<>> /\ alertSeq = 0 /\ timers = {}
  /\ profile = profileInitialState /\ pflight = {}
  /\ resources = resourcesInitialState /\ rflight = {}
  /\ um = UMUnmounted /\ trail = <<>>

AlertInit == LoadedSession("t1", "/") /\ StoresAtRest

\* The payloads the views pass to addAlert: with or without a type, with
\* autoClose left out or false
AlertPayloads ==
  [type : {None, "error"}, message : {"m"}, autoClose : {None, "false"}]

\* An id no alert on screen has
FreshAlertId ==
  CHOOSE i \in 1..(MaxAlerts + 1) :
    /\ i \notin AlertIds(alerts)
    /\ \A j \in 1..(MaxAlerts + 1) : j \notin AlertIds(alerts) => i <= j

\* Some view dispatches addAlert; AlertManager renders and its effect runs
AddAlert(payload) ==
  /\ Len(alerts) < MaxAlerts
  /\ alerts' = addAlert(alerts, FreshAlertId, payload)
  /\ alertSeq' = FreshAlertId
  /\ timers' = StartTimers(alerts')
  /\ UNCHANGED <<sessionVars, profile, besideSession>>

\* AlertManager.handleClose(id): the user closes an alert
HandleClose(id) ==
  /\ id \in AlertIds(alerts)
  /\ alerts' = removeAlert(alerts, id)
  /\ timers' = StartTimers(alerts')
  /\ UNCHANGED <<sessionVars, alertSeq, profile, besideSession>>

\* The timers that are due
Expired == {t \in timers : t.left <= 0}

\* Time passes, no further than to the next timer that is due
Tick ==
  /\ timers # {}
  /\ Expired = {}
  /\ timers' = {[t EXCEPT !.left = IF @ > TickLength THEN @ - TickLength ELSE 0] :
                  t \in timers}
  /\ UNCHANGED <<sessionVars, alerts, alertSeq, profile, besideSession>>

\* The callbacks of some timers that are due run, each dispatching
\* removeAlert(alert.id), before AlertManager's effect runs again, clears the
\* timers still pending and sets new ones
TimerFires(due) ==
  /\ due # {} /\ due \subseteq Expired
  /\ alerts' = SelectSeq(alerts, LAMBDA a : a.id \notin {t.id : t \in due})
  /\ timers' = StartTimers(alerts')
  /\ UNCHANGED <<sessionVars, alertSeq, profile, besideSession>>

AlertNext ==
  \/ \E payload \in AlertPayloads : AddAlert(payload)
  \/ \E id \in AlertIds(alerts) : HandleClose(id)
  \/ Tick
  \/ \E due \in SUBSET timers : TimerFires(due)

\* The clock advances and due timers run
AlertSpec ==
  /\ AlertInit /\ [][AlertNext]_vars
  /\ WF_vars(Tick)
  /\ WF_vars(\E due \in SUBSET timers : TimerFires(due))

----------------------------------------------------------------------------
(* The resources store on its own *)

ResourcesInit == LoadedSession("t1", "/") /\ StoresAtRest

\* The thunks of resourcesSlice that write the list
ResourceKinds == {"fetchResources", "createResource", "updateResource"}

\* dispatch of a resources thunk: `pending`
DispatchResources(kind) ==
  /\ kind \notin rflight
  /\ rflight' = rflight \cup {kind}
  /\ resources' = resourcesPending(resources)
  /\ UNCHANGED <<sessionVars, alerts, alertSeq, timers, profile, pflight, um,
                 trail>>

\* GET /api/resources/ answers with a page of resources
FetchResourcesSucceeds(list) ==
  /\ "fetchResources" \in rflight
  /\ rflight' = rflight \ {"fetchResources"}
  /\ resources' = fetchResourcesFulfilled(resources, list)
  /\ UNCHANGED <<sessionVars, alerts, alertSeq, timers, profile, pflight, um,
                 trail>>

\* POST /api/resources/ answers with the resource created
CreateResourceSucceeds(r) ==
  /\ "createResource" \in rflight
  /\ Len(resources.resources) <= MaxResources
  /\ rflight' = rflight \ {"createResource"}
  /\ resources' = createResourceFulfilled(resources, r)
  /\ UNCHANGED <<sessionVars, alerts, alertSeq, timers, profile, pflight, um,
                 trail>>

\* PUT /api/resources/:id answers with the resource as updated
UpdateResourceSucceeds(r) ==
  /\ "updateResource" \in rflight
  /\ rflight' = rflight \ {"updateResource"}
  /\ resources' = updateResourceFulfilled(resources, r)
  /\ UNCHANGED <<sessionVars, alerts, alertSeq, timers, profile, pflight, um,
                 trail>>

\* A resources request fails: `rejected` with the message
ResourcesFails(kind) ==
  /\ kind \in rflight
  /\ rflight' = rflight \ {kind}
  /\ resources' = resourcesRejected(resources, "Failed")
  /\ UNCHANGED <<sessionVars, alerts, alertSeq, timers, profile, pflight, um,
                 trail>>

ResourcesNext ==
  \/ \E kind \in ResourceKinds : DispatchResources(kind)
  \/ \E list \in ServerLists : FetchResourcesSucceeds(list)
  \/ \E r \in Resources : CreateResourceSucceeds(r)
  \/ \E r \in Resources : UpdateResourceSucceeds(r)
  \/ \E kind \in ResourceKinds : ResourcesFails(kind)

ResourcesSpec == ResourcesInit /\ [][ResourcesNext]_vars

----------------------------------------------------------------------------
(* The admin user-management view on its own *)

\* An admin has loaded the page at /dashboard/users
UsersInit == LoadedSession("t2", "/dashboard/users") /\ StoresAtRest

\* The view is rendered and mounts: its effect runs for the first time
UMMount ==
  /\ Screen(auth, path) = "UserManagement"
  /\ ~um.mounted
  /\ um' = fetchUsers([um EXCEPT !.mounted = TRUE])
  /\ UNCHANGED <<sessionVars, alerts, alertSeq, timers, profile, pflight,
                 resources, rflight, trail>>

\* handleChangePage: setPage(newPage); the effect runs with the new page
HandleChangePage(newPage) ==
  /\ um.mounted /\ um.fetches < MaxFetches
  /\ newPage # um.page
  /\ um' = fetchUsers([um EXCEPT !.page = newPage])
  /\ UNCHANGED <<sessionVars, alerts, alertSeq, timers, profile, pflight,
                 resources, rflight, trail>>

\* handleChangeRowsPerPage: setRowsPerPage(n), setPage(0); the effect runs
\* if one of the two changed
HandleChangeRowsPerPage(n) ==
  /\ um.mounted /\ um.fetches < MaxFetches
  /\ n # um.rowsPerPage \/ um.page # 0
  /\ um' = fetchUsers([um EXCEPT !.rowsPerPage = n, !.page = 0])
  /\ UNCHANGED <<sessionVars, alerts, alertSeq, timers, profile, pflight,
                 resources, rflight, trail>>

\* handleFilterChange: setFilters builds a new filters object, setPage(0);
\* the effect runs
HandleFilterChange(role) ==
  /\ um.mounted /\ um.fetches < MaxFetches
  /\ um' = fetchUsers([um EXCEPT !.role = role, !.page = 0])
  /\ UNCHANGED <<sessionVars, alerts, alertSeq, timers, profile, pflight,
                 resources, rflight, trail>>

\* fetchUsers after its await: setUsers, setTotalUsers with the rows the
\* server returned for the request's query, setError(null), setIsLoading(false)
UsersSucceeds(r) ==
  /\ r \in um.flight
  /\ um' = [um EXCEPT !.shown = r.query, !.error = None, !.isLoading = FALSE,
                      !.flight = @ \ {r}]
  /\ UNCHANGED <<sessionVars, alerts, alertSeq, timers, profile, pflight,
                 resources, rflight, trail>>

\* fetchUsers' catch and finally: setError, addAlert, setIsLoading(false)
UsersFails(r) ==
  /\ r \in um.flight
  /\ um' = [um EXCEPT !.error = "Failed to load users", !.isLoading = FALSE,
                      !.flight = @ \ {r}]
  /\ alerts' = addAlert(alerts, alertSeq + 1,
                        Alert("error", "Failed to load users"))
  /\ alertSeq' = alertSeq + 1
  /\ timers' = StartTimers(alerts')
  /\ UNCHANGED <<sessionVars, profile, pflight, resources, rflight, trail>>

UsersNext ==
  \/ UMMount
  \/ \E newPage \in PageNumbers : HandleChangePage(newPage)
  \/ \E n \in RowsPerPageOptions : HandleChangeRowsPerPage(n)
  \/ \E role \in RoleFilters : HandleFilterChange(role)
  \/ \E r \in um.flight : UsersSucceeds(r)
  \/ \E r \in um.flight : UsersFails(r)

UsersSpec == UsersInit /\ [][UsersNext]_vars

----------------------------------------------------------------------------
(* Properties *)

\* The n-th most recent action the store received (1: the last one)
Recent(n) == hist[Len(hist) + 1 - n]

Anonymous ==
  /\ ~auth.isAuthenticated
  /\ auth.user = NullUser
  /\ auth.token = None

\* C1: right after a logout resolves, whether its POST succeeded or failed,
\* the session is unauthenticated with no user and no token, and both the
\* persisted token and the Authorization header are cleared.
C1_LogoutAlwaysClears ==
  (Len(hist) >= 1 /\ Recent(1).type = "auth/logout/fulfilled")
    => (Anonymous /\ ls = None /\ hdr = NoHeader)

\* a logout whose POST failed has just resolved on a session a login had
\* authenticated
C1_Witness ==
  /\ Len(hist) >= 3
  /\ Recent(3).type = "auth/login/fulfilled"
  /\ Recent(2).type = "auth/logout/pending"
  /\ Recent(1).type = "auth/logout/fulfilled"
  /\ Recent(1).http = "failed"

\* C2: in every reachable state, token absent implies not authenticated.
C2_NoTokenNotAuthenticated ==
  auth.token = None => ~auth.isAuthenticated

\* C3: in every reachable state, an authenticated session has a user record
\* (every successful response carries one).
C3_AuthenticatedHasUser ==
  auth.isAuthenticated => auth.user # NullUser

\* a status check resolved successfully right after a logout had cleared the
\* session
C3_Witness ==
  /\ Len(hist) >= 2
  /\ Recent(2).type = "auth/logout/fulfilled"
  /\ Recent(1).type = "auth/checkStatus/fulfilled"
  /\ auth.isAuthenticated

\* C4: once a checkStatus that found no persisted token has resolved, the
\* session's error is "No token found".
C4_NoTokenError ==
  (/\ Len(hist) >= 1
   /\ Recent(1).type = "auth/checkStatus/rejected"
   /\ Recent(1).http = "none")
    => auth.error = "No token found"

\* C5: the admin-required dashboard view is on screen only when isLoading is
\* false, the session is authenticated and user.role is 'admin'; a 'user'
\* session that requests /dashboard ends at the home location '/', and an
\* authenticated 'admin' session that requests it gets the dashboard.
C5_DashboardAdminOnly ==
  /\ [](Screen(auth, path) = "DashboardPage"
          => (/\ ~auth.isLoading
              /\ auth.isAuthenticated
              /\ auth.user.role = "admin"))
  /\ [][(/\ NavigateTo("/dashboard")
         /\ ~auth.isLoading
         /\ auth.isAuthenticated)
          => (/\ auth.user.role = "user" => path' = "/"
              /\ auth.user.role = "admin" => path' = "/dashboard")]_vars

\* an admin session has the dashboard on screen
C5_Witness ==
  /\ Screen(auth, path) = "DashboardPage"
  /\ auth.user.role = "admin"

\* C6: the guard's outcome is decided in this order: isLoading -> nothing;
\* not authenticated -> to /login; a required role the user's role differs
\* from (an absent user included) -> to /; otherwise the children. Every
\* input has exactly the outcome of this table.
C6_GuardTable ==
  out # Unrendered =>
    /\ out \in {Null, Navigate("/login"), Navigate("/"), Page("children")}
    /\ out = Null <=> auth.isLoading
    /\ out = Navigate("/login") <=> (~auth.isLoading /\ ~auth.isAuthenticated)
    /\ out = Navigate("/") <=>
         (/\ ~auth.isLoading /\ auth.isAuthenticated
          /\ req # None /\ auth.user.role # req)
    /\ out = Page("children") <=>
         (/\ ~auth.isLoading /\ auth.isAuthenticated
          /\ (req = None \/ auth.user.role = req))

\* an authenticated snapshot without a user record, under a required role, was
\* sent home
C6_Witness ==
  /\ out = Navigate("/")
  /\ auth.user = NullUser
  /\ auth.isAuthenticated
  /\ req = "admin"

TokenConsistent ==
  /\ hdr = NoHeader <=> ls = None
  /\ hdr # NoHeader => hdr = Bearer(ls)

\* C7: in every reachable state the Authorization header carries a bearer
\* token if and only if a token is persisted, and it is that token.
C7_HeaderMatchesStored == TokenConsistent

\* C7 as amended: from the moment App's initial checkStatus has been
\* dispatched, the header carries a bearer token if and only if a token is
\* persisted, and it is that token.
C7_HeaderMatchesStoredOnceMounted == mounted => TokenConsistent

\* a login has just written a token after an earlier token was cleared
C7_Witness ==
  /\ Len(hist) >= 2
  /\ Recent(2).type \in {"auth/logout/fulfilled", "auth/checkStatus/rejected"}
  /\ Recent(1).type = "auth/login/fulfilled"
  /\ ls = Recent(1).token
  /\ hdr = Bearer(ls)

\* C8: isLoading is true whenever a register, login, checkStatus or logout
\* request has been dispatched and has not yet resolved.
C8_LoadingWhileInFlight ==
  (\E r \in inflight : r.sent) => auth.isLoading

\* The initial status check has not resolved yet
InitialCheckPending ==
  ~mounted \/ \E r \in inflight : r.kind = "checkStatus" /\ r.from = "App"

\* C9: from the start until the initial checkStatus resolves, isLoading is
\* true, App shows no route, the guard renders nothing, and no register,
\* login or logout has been dispatched.
C9_InertUntilChecked ==
  InitialCheckPending =>
    /\ auth.isLoading
    /\ Screen(auth, path) = "Loading"
    /\ \A rr \in RequiredRoles : ProtectedRoute(auth, rr, Page("children")) = Null
    /\ \A r \in inflight : r.kind = "checkStatus"
    /\ \A i \in 1..Len(hist) : hist[i].type = "auth/checkStatus/pending"

\* the initial check is in flight with a persisted token, at the login location
C9_Witness ==
  /\ mounted
  /\ \E r \in inflight : r.kind = "checkStatus" /\ r.from = "App" /\ r.sent
  /\ path = "/login"

\* C10: a login that succeeded, followed immediately by a checkStatus that
\* the server answers, leaves the user record the login stored, the same
\* token, and the session authenticated.
C10_LoginThenCheckSameUser ==
  (/\ Len(hist) >= 3
   /\ Recent(3).type = "auth/login/fulfilled"
   /\ Recent(2).type = "auth/checkStatus/pending"
   /\ Recent(1).type = "auth/checkStatus/fulfilled"
   /\ Recent(1).id = Recent(2).id)
    => (/\ auth.user = Recent(3).user
        /\ auth.token = Recent(3).token
        /\ ls = Recent(3).token
        /\ auth.isAuthenticated)

\* a login as the admin, then at once a status check that succeeded
C10_Witness ==
  /\ Len(hist) >= 3
  /\ Recent(3).type = "auth/login/fulfilled"
  /\ Recent(3).user.role = "admin"
  /\ Recent(2).type = "auth/checkStatus/pending"
  /\ Recent(1).type = "auth/checkStatus/fulfilled"
  /\ Recent(1).id = Recent(2).id
  /\ auth.user.role = "admin"

\* C11: right after a register or login succeeds with {access_token, user},
\* the session is authenticated, user is the returned user, token is the
\* returned non-empty access_token, and that token is persisted and on the
\* Authorization header.
C11_SuccessStoresTokenAndUser ==
  (/\ Len(hist) >= 1
   /\ Recent(1).type \in {"auth/register/fulfilled", "auth/login/fulfilled"})
    => (/\ auth.isAuthenticated
        /\ auth.user = Recent(1).user
        /\ auth.token = Recent(1).token
        /\ auth.token \in Tokens
        /\ ls = auth.token
        /\ hdr = Bearer(auth.token))

\* a signup has just succeeded for a user of role 'user'
C11_Witness ==
  /\ Len(hist) >= 1
  /\ Recent(1).type = "auth/register/fulfilled"
  /\ auth.user.role = "user"
  /\ auth.token = "t1"

\* C12: a login or register that fails sets the session error and leaves
\* isAuthenticated, user, token, the persisted token and the Authorization
\* header as they were.
C12_FailureKeepsSession ==
  [][\A r \in inflight : \A e \in ServerErrors :
       (LoginRejects(r, e) \/ RegisterRejects(r, e))
         => (/\ auth'.error # None
             /\ auth'.isAuthenticated = auth.isAuthenticated
             /\ auth'.user = auth.user
             /\ auth'.token = auth.token
             /\ ls' = ls
             /\ hdr' = hdr)]_vars

\* a login has just failed on a session that was, and still is, authenticated
C12_Witness ==
  /\ Len(hist) >= 1
  /\ Recent(1).type = "auth/login/rejected"
  /\ auth.error # None
  /\ auth.isAuthenticated
  /\ auth.token \in Tokens

\* C13: right after a checkStatus that was sent with a persisted token fails,
\* the token is gone from the store, from localStorage and from the
\* Authorization header, and the session is anonymous with isLoading false.
C13_FailedCheckPurgesToken ==
  (/\ Len(hist) >= 1
   /\ Recent(1).type = "auth/checkStatus/rejected"
   /\ Recent(1).http = "failed")
    => (Anonymous /\ ~auth.isLoading /\ ls = None /\ hdr = NoHeader)

\* a status check has just failed right after a login had stored a token
C13_Witness ==
  /\ Len(hist) >= 2
  /\ Recent(2).type = "auth/login/fulfilled"
  /\ Recent(1).type = "auth/checkStatus/rejected"
  /\ Recent(1).http = "failed"

\* C14: right after a logout resolves or a checkStatus fails, the session has
\* its initial shape: no token, no user, not authenticated and no error.
C14_ResetToInitialShape ==
  (/\ Len(hist) >= 1
   /\ Recent(1).type \in {"auth/logout/fulfilled", "auth/checkStatus/rejected"})
    => (Anonymous /\ auth.error = None)

\* C15: when a register or login request fails, the session error is the
\* server's error field if the response has one, and else 'Registration
\* failed' for register and 'Login failed' for login; it is never absent.
C15_ErrorFromServerOrDefault ==
  [][\A r \in inflight : \A e \in ServerErrors :
       /\ LoginRejects(r, e) =>
            (/\ auth'.error = (IF e # None THEN e ELSE "Login failed")
             /\ auth'.error # None)
       /\ RegisterRejects(r, e) =>
            (/\ auth'.error = (IF e # None THEN e ELSE "Registration failed")
             /\ auth'.error # None)]_vars

\* a signup has just failed with the server's message
C15_Witness ==
  /\ Len(hist) >= 1
  /\ Recent(1).type = "auth/register/rejected"
  /\ auth.error = "Invalid credentials"

\* The actions of the four thunks
ThunkActionTypes ==
  {"auth/" \o k \o "/" \o ph :
     k \in {"register", "login", "checkStatus", "logout"},
     ph \in {"pending", "fulfilled", "rejected"}}

C17_AuthenticatedOnlyOnSuccess ==
  [][(~auth.isAuthenticated /\ auth'.isAuthenticated)
       => (/\ hist' # hist
           /\ Recent(1)'.type \in {"auth/register/fulfilled",
                                   "auth/login/fulfilled",
                                   "auth/checkStatus/fulfilled"})]_vars

\* a signup succeeded right after a signup had failed
C17_Witness ==
  /\ Len(hist) >= 2
  /\ Recent(2).type = "auth/register/rejected"
  /\ Recent(1).type = "auth/register/fulfilled"
  /\ auth.isAuthenticated

\* The actions that carry a response
ResponseTypes ==
  {"auth/" \o k \o "/" \o ph :
     k \in {"register", "login", "checkStatus", "logout"},
     ph \in {"fulfilled", "rejected"}}

\* C18: nothing is cancelled; isAuthenticated, token and user are changed by
\* responses only, and after a response they are what its reducer wrote, so
\* the last response to write them decides them: a login that succeeds after
\* a logout has resolved leaves the session authenticated.
C18_LastResponseWins ==
  /\ [](Len(hist) >= 1 =>
          /\ Recent(1).type \in {"auth/register/fulfilled", "auth/login/fulfilled"}
               => (/\ auth.isAuthenticated
                   /\ auth.token = Recent(1).token
                   /\ auth.user = Recent(1).user)
          /\ Recent(1).type = "auth/checkStatus/fulfilled"
               => (auth.isAuthenticated /\ auth.user = Recent(1).user)
          /\ Recent(1).type \in {"auth/logout/fulfilled",
                                 "auth/checkStatus/rejected"}
               => Anonymous)
  /\ [][<<auth.isAuthenticated, auth.token, auth.user>>'
          # <<auth.isAuthenticated, auth.token, auth.user>>
          => (hist' # hist /\ Recent(1)'.type \in ResponseTypes)]_vars

\* a login that was in flight when the logout was dispatched succeeded after
\* the logout had resolved
C18_Witness ==
  /\ Len(hist) >= 2
  /\ Recent(2).type = "auth/logout/fulfilled"
  /\ Recent(1).type = "auth/login/fulfilled"
  /\ Recent(1).id < Recent(2).id
  /\ auth.isAuthenticated
  /\ inflight = {}

\* C19: the store's token always equals the token persisted in localStorage.
C19_StoreTokenIsPersistedToken == auth.token = ls

\* a logout resolved while a login was in flight, and the login then stored
\* its token in both places
C19_Witness ==
  /\ Len(hist) >= 2
  /\ Recent(2).type = "auth/logout/fulfilled"
  /\ Recent(1).type = "auth/login/fulfilled"
  /\ auth.token = "t2"
  /\ ls = "t2"

\* C20: when a form's submit handler resumes after a request that failed, it
\* adds no success alert and does not navigate.
C20_NoSuccessAfterFailure ==
  [][(SubmitResumes /\ ~cont.ok)
       => (alerts' = alerts /\ UNCHANGED <<auth, hist, path>>)]_vars

\* C21: a checkStatus dispatched while no token is persisted sends no
\* request and writes neither localStorage nor the Authorization header, at
\* its dispatch and at its resolution; it resolves as a rejection that leaves
\* the session anonymous with isLoading false.
C21_NoTokenCheckIsLocal ==
  [][/\ \A r \in inflight' \ inflight :
          (r.kind = "checkStatus" /\ ls = None)
            => (~r.sent /\ r.tok = None /\ ls' = ls /\ hdr' = hdr)
     /\ \A r \in inflight :
          CheckNoToken(r)
            => (/\ ls' = ls /\ hdr' = hdr
                /\ Recent(1)'.type = "auth/checkStatus/rejected"
                /\ Recent(1)'.http = "none"
                /\ ~auth'.isAuthenticated
                /\ auth'.user = NullUser
                /\ auth'.token = None
                /\ ~auth'.isLoading)]_vars

\* the status check of a page load without a persisted token has resolved
C21_Witness ==
  /\ Len(hist) >= 2
  /\ Recent(2).type = "auth/checkStatus/pending"
  /\ Recent(1).type = "auth/checkStatus/rejected"
  /\ Recent(1).http = "none"
  /\ ls = None /\ hdr = NoHeader
  /\ Anonymous /\ ~auth.isLoading

\* C22: the pending step of register, login and checkStatus sets isLoading
\* and clears error and leaves token, user and isAuthenticated as they were;
\* dispatching logout leaves the session store as it was.
C22_PendingStep ==
  [][\A r \in inflight' \ inflight :
       IF r.kind = "logout"
         THEN auth' = auth
         ELSE /\ auth' = [auth EXCEPT !.isLoading = TRUE, !.error = None]
              /\ Recent(1)'.type = "auth/" \o r.kind \o "/pending"]_vars

\* a login was dispatched while the error of a failed login was showing
C22_Witness ==
  /\ Len(hist) >= 2
  /\ Recent(2).type = "auth/login/rejected"
  /\ Recent(1).type = "auth/login/pending"
  /\ auth.isLoading
  /\ auth.error = None

\* C25: in no reachable state is the session authenticated while error is
\* present.
C25_AuthenticatedHasNoError ==
  ~(auth.isAuthenticated /\ auth.error # None)

\* C26: whenever the session is authenticated with a token present, the
\* stored user is the user the server associates with that token.
C26_UserBelongsToToken ==
  (auth.isAuthenticated /\ auth.token # None) => auth.user = UserOf(auth.token)

\* C23: with isLoading false and the session authenticated, the login and
\* register views are not rendered and /login and /register redirect to
\* /profile; from any location and any session snapshot no chain of redirects
\* comes back to a location it went through, and it ends at a rendered view.
C23_RedirectsEndAtAView ==
  /\ []((~auth.isLoading /\ auth.isAuthenticated)
          => (/\ Screen(auth, path) \notin FormPages
              /\ path \in {"/login", "/register"}
                   => App(auth, path) = Navigate("/profile")))
  /\ [](\A i, j \in 1..Len(trail) : trail[i] = trail[j] => i = j)
  /\ <>(App(auth, path).kind # "navigate")

\* an authenticated session that asked for /login is shown its profile page
C23_Witness ==
  /\ trail = <<"/login", "/profile">>
  /\ auth.isAuthenticated
  /\ Screen(auth, path) = "ProfilePage"

\* The positions in h of the responses to the thunk with the given requestId
ResponsesTo(h, id) ==
  {i \in 1..Len(h) : h[i].id = id /\ h[i].type \in ResponseTypes}

\* C24: when every request gets a response, every dispatched register, login,
\* checkStatus and logout leaves the in-flight set in a step that hands the
\* store exactly one response action for it; whenever nothing is in flight
\* after the mount isLoading is false; and the 'Loading...' box is eventually
\* left.
C24_EveryRequestResolvesOnce ==
  /\ [][\A r \in inflight \ inflight' :
          /\ inflight \ inflight' = {r}
          /\ ResponsesTo(hist, r.id) = {}
          /\ Cardinality(ResponsesTo(hist', r.id)) = 1]_vars
  /\ []((mounted /\ inflight = {}) => ~auth.isLoading)
  /\ \A id \in 1..(MaxOps + 1) :
       (\E r \in inflight : r.id = id) ~> ~(\E r \in inflight : r.id = id)
  /\ <>(mounted /\ Screen(auth, path) # "Loading")

\* a header logout has resolved after the initial check and nothing is in
\* flight
C24_Witness ==
  /\ Len(hist) >= 1
  /\ Recent(1).type = "auth/logout/fulfilled"
  /\ mounted /\ inflight = {}
  /\ ~auth.isLoading
  /\ Screen(auth, path) = "HomePage"

\* C27: once a logout has resolved and no session or profile request is in
\* flight, the profile store holds no data: data null, completionPercentage 0.
C27_NoProfileAfterLogout ==
  (/\ Len(hist) >= 1
   /\ Recent(1).type = "auth/logout/fulfilled"
   /\ inflight = {}
   /\ pflight = {})
    => (profile.data = NoProfile /\ profile.completionPercentage = 0)

\* C28: every alert on screen with autoClose true is eventually removed from
\* the alerts list.
C28_AutoCloseAlertsGoAway ==
  \A i \in 1..MaxAlerts :
    (\E k \in 1..Len(alerts) : alerts[k].id = i /\ alerts[k].autoClose = "true")
      ~> (i \notin AlertIds(alerts))

\* Whether the list has an entry with the id
Listed(list, id) == \E k \in 1..Len(list) : list[k].id = id

\* C29: the resources list never has two entries with the same id; a
\* createResource response prepends its resource if its id is not listed and
\* else leaves the list as it is; an updateResource response keeps the length
\* of the list, puts its resource at the place of the entry with its id and
\* leaves every other entry as it is.
C29_ResourcesDuplicateFree ==
  /\ []DuplicateFree(resources.resources)
  /\ [][\A r \in Resources :
          /\ CreateResourceSucceeds(r) =>
               resources'.resources =
                 IF Listed(resources.resources, r.id) THEN resources.resources
                 ELSE <<r>> \o resources.resources
          /\ UpdateResourceSucceeds(r) =>
               /\ Len(resources'.resources) = Len(resources.resources)
               /\ \A k \in 1..Len(resources.resources) :
                    resources'.resources[k] =
                      IF resources.resources[k].id = r.id THEN r
                      ELSE resources.resources[k]]_vars

\* a createResource response came back for an id the list already had: the
\* list kept its own entry
C29_Witness ==
  /\ Len(resources.resources) >= 2
  /\ \E k \in 1..Len(resources.resources) :
       /\ resources.resources[k].id = resources.currentResource.id
       /\ resources.resources[k].title # resources.currentResource.title

====
